---- MODULE Spec2Model ----
(***************************************************************************)
(* A model of the BGP route propagation and decision engine of            *)
(* src/bgp/bgp.py (class BGPNetwork).                                      *)
(*                                                                         *)
(* The engine is a synchronous, recursive, depth-first procedure.  The     *)
(* model keeps the Python call stack explicitly: one frame per active      *)
(* announce_prefix / update / withdraw call, holding the call's local      *)
(* variables and the announce_route calls its loops have still to make.    *)
(***************************************************************************)
EXTENDS Integers, Sequences, FiniteSets, TLC

VARIABLES
    network,      \* self.network: nodes (AS, id) and ordered adjacency
    asgraph,      \* self.AS: per AS, the internal graph (ordered nodes, weights)
    bgp_tables,   \* self.bgp_tables: router -> prefix -> set of routes
    stack,        \* the call stack, top first
    error,        \* the exception that ended the run, "none" if none
    hashseed,     \* the process's hash seed: fixes the iteration order of sets
    announced,    \* the routers announce_prefix was called on, in order
    returned,     \* the message whose announce_route call has just returned
    run,          \* 1 in the first run of the script, 2 in its repetition
    firstTables,  \* bgp_tables at the end of the first run
    script,       \* the construction calls a test script has still to make
    selected,     \* what decision_process returned when it was called on its own
    measured      \* the last call of distance made on its own, and what it returned

vars == <<network, asgraph, bgp_tables, stack, error, hashseed, announced,
          returned, run, firstTables, script, selected, measured>>

-----------------------------------------------------------------------------
(* Bounds of the model *)

\* the number of add_*_link calls of a construction
MaxLinks == 5
\* the depth of the call stack
MaxDepth == 14

\* the number of internal links of an AS whose IGP distances are measured
MaxIgpLinks == 4

-----------------------------------------------------------------------------
(* Program constants *)

PrefProvider == 50
PrefPeer == 100
PrefCustomer == 150
PrefSelf == 1000

-----------------------------------------------------------------------------
(* Generic helpers *)

Put(f, k, v) == [x \in (DOMAIN f) \cup {k} |-> IF x = k THEN v ELSE f[x]]

EmptyMap == [x \in {} |-> {}]

Elems(s) == {s[i] : i \in 1..Len(s)}

\* the element of a one-element set.  Only({e(x) : x \in {v}}) is e(v), with v
\* evaluated once
Only(S) == CHOOSE x \in S : TRUE

\* a comes before b in lexicographic order
LexLess(a, b) ==
    \E ka \in {a}, kb \in {b} :
        \E i \in 1..(Len(ka) + 1) :
            /\ \A j \in 1..(i - 1) : j <= Len(kb) /\ ka[j] = kb[j]
            /\ i <= Len(kb)
            /\ (i <= Len(ka) => ka[i] < kb[i])

\* F"10.0.{AS}.{id}" and F"10.0.{AS}.0": the dotted string, as its four numbers
Addr(as, id) == <<10, 0, as, id>>
Prefix(as) == <<10, 0, as, 0>>

-----------------------------------------------------------------------------
(* Routes and messages *)

BGPRoute(prefix, nexthop, as_path, pref, med, router_id, src) ==
    [prefix |-> prefix, nexthop |-> nexthop, as_path |-> as_path, pref |-> pref,
     med |-> med, router_id |-> router_id, src |-> src]

\* Python's None, where a route is expected
NoRoute == BGPRoute(<<>>, <<>>, <<>>, 0, 0, 0, "none")

Message(type, route, current, origin) ==
    [type |-> type, route |-> route, current |-> current, origin |-> origin]

NoMessage == Message("none", NoRoute, "", "")

\* no call of distance has been made on its own
NoMeasure == [router |-> "", nexthop |-> <<>>, dist |-> -1]

-----------------------------------------------------------------------------
(* Topology construction *)

EmptyNetwork == [nodes |-> EmptyMap, adj |-> EmptyMap]

\* nx.DiGraph.add_edge: a new edge goes last in u's adjacency; an existing
\* edge keeps its place and has the given attributes overwritten
EdgeIndex(adjseq, v) ==
    IF \E i \in 1..Len(adjseq) : adjseq[i].neigh = v
    THEN CHOOSE i \in 1..Len(adjseq) : adjseq[i].neigh = v
    ELSE 0

ExternalEdge(adjseq, v, type, med) ==
    LET i == EdgeIndex(adjseq, v)
    IN IF i = 0
       THEN Append(adjseq, [neigh |-> v, type |-> type, hasMed |-> TRUE, med |-> med,
                            hasCost |-> FALSE, cost |-> 0])
       ELSE [adjseq EXCEPT ![i] = [@ EXCEPT !.type = type, !.hasMed = TRUE, !.med = med]]

InternalEdge(adjseq, v, cost) ==
    LET i == EdgeIndex(adjseq, v)
    IN IF i = 0
       THEN Append(adjseq, [neigh |-> v, type |-> "internal", hasMed |-> FALSE, med |-> 0,
                            hasCost |-> TRUE, cost |-> cost])
       ELSE [adjseq EXCEPT ![i] = [@ EXCEPT !.type = "internal", !.hasCost = TRUE,
                                              !.cost = cost]]

\* the state of a BGPNetwork, as far as construction sets it
EmptyBuild == [network |-> EmptyNetwork, asgraph |-> EmptyMap, bgp_tables |-> EmptyMap]

add_router(b, name, as, id) ==
    LET g == IF as \in DOMAIN b.asgraph THEN b.asgraph[as]
             ELSE [nodes |-> <<>>, edges |-> <<>>, weight |-> EmptyMap]
        a == Addr(as, id)
        known == \E i \in 1..Len(g.nodes) : g.nodes[i].addr = a
        nodes2 == IF known
                  THEN [i \in 1..Len(g.nodes) |->
                           IF g.nodes[i].addr = a THEN [addr |-> a, name |-> name]
                           ELSE g.nodes[i]]
                  ELSE Append(g.nodes, [addr |-> a, name |-> name])
    IN [network |->
            [nodes |-> Put(b.network.nodes, name, [AS |-> as, id |-> id]),
             adj |-> IF name \in DOMAIN b.network.adj THEN b.network.adj
                     ELSE Put(b.network.adj, name, <<>>)],
        asgraph |-> Put(b.asgraph, as, [g EXCEPT !.nodes = nodes2]),
        bgp_tables |-> Put(b.bgp_tables, name, EmptyMap)]

add_peer_link(b, r1, r2, med) ==
    LET adj1 == [b.network.adj EXCEPT ![r1] = ExternalEdge(@, r2, "peer", med)]
        adj2 == [adj1 EXCEPT ![r2] = ExternalEdge(@, r1, "peer", med)]
    IN [b EXCEPT !.network.adj = adj2]

add_provider_customer(b, provider, customer, med) ==
    LET adj1 == [b.network.adj EXCEPT ![provider] = ExternalEdge(@, customer, "customer", med)]
        adj2 == [adj1 EXCEPT ![customer] = ExternalEdge(@, provider, "provider", med)]
    IN [b EXCEPT !.network.adj = adj2]

\* both routers are of one AS (the assertion of line 58 holds)
add_internal_link(b, r1, r2, cost) ==
    LET adj1 == [b.network.adj EXCEPT ![r1] = InternalEdge(@, r2, cost)]
        adj2 == [adj1 EXCEPT ![r2] = InternalEdge(@, r1, cost)]
        d1 == b.network.nodes[r1]
        d2 == b.network.nodes[r2]
        p1 == Addr(d1.AS, d1.id)
        p2 == Addr(d1.AS, d2.id)
        g == b.asgraph[d1.AS]
        w2 == Put(Put(g.weight, <<p1, p2>>, cost), <<p2, p1>>, cost)
        e1 == IF <<p1, p2>> \in DOMAIN g.weight THEN g.edges ELSE Append(g.edges, <<p1, p2>>)
        e2 == IF <<p2, p1>> \in DOMAIN w2 /\ <<p2, p1>> \in Elems(e1) THEN e1
              ELSE Append(e1, <<p2, p1>>)
    IN [b EXCEPT !.network.adj = adj2, !.asgraph[d1.AS].weight = w2,
                 !.asgraph[d1.AS].edges = e2]

-----------------------------------------------------------------------------
(* IGP distance *)

\* variant: every next hop at the same IGP distance
DistanceOne(net, asg, router, nexthop) == 1

\* G.adj[v].items() of the AS graph: the edges out of v, in insertion order
Neighbours(g, v) == SelectSeq(g.edges, LAMBDA e : e[1] = v)

\* the (dist, counter, node) entry heappop takes from the fringe
HeapMin(fringe) ==
    CHOOSE t \in fringe :
        \A o \in fringe : t[1] < o[1] \/ (t[1] = o[1] /\ t[2] <= o[2])

\* nx.dijkstra_path, the loop over the edges out of the node just finalised at
\* distance d: a strictly shorter distance to u is recorded in seen, pushed on
\* the fringe, and the path to u becomes the path to v plus u
RECURSIVE RelaxEdges(_, _, _, _, _)
RelaxEdges(g, d, out, done, st) ==
    IF out = <<>> THEN st
    ELSE LET v == Head(out)[1]
             u == Head(out)[2]
             vu == d + g.weight[Head(out)]
             better == IF u \in DOMAIN st.seen THEN vu < st.seen[u] ELSE TRUE
         IN Only({RelaxEdges(g, d, Tail(out), done, st2) :
                    st2 \in {IF u \notin done /\ better
                             THEN [seen |-> (u :> vu) @@ st.seen,
                                   plen |-> (u :> st.plen[v] + 1) @@ st.plen,
                                   fringe |-> st.fringe \cup {<<vu, st.c, u>>},
                                   c |-> st.c + 1]
                             ELSE st}})

\* nx.dijkstra_path, the main loop; the result is len(paths[target]), or 0 when
\* the fringe empties before target is finalised (NetworkXNoPath is raised)
RECURSIVE Dijkstra(_, _, _, _)
Dijkstra(g, target, done, st) ==
    IF st.fringe = {} THEN 0
    ELSE LET t == HeapMin(st.fringe)
             v == t[3]
             rest == [st EXCEPT !.fringe = @ \ {t}]
         IN IF v \in done THEN Only({Dijkstra(g, target, done, st2) : st2 \in {rest}})
            ELSE IF v = target THEN st.plen[v]
            ELSE Only({Dijkstra(g, target, done2, st2) :
                         done2 \in {done \cup {v}},
                         st2 \in {RelaxEdges(g, t[1], Neighbours(g, v), done \cup {v},
                                             rest)}})

\* variant: the fewest hops, whatever the costs
DistanceHops(net, asg, router, nexthop) ==
    LET data == net.nodes[router]
        source == Addr(data.AS, data.id)
    IN Only({Dijkstra(g, nexthop, {}, st) :
               g \in {[asg[data.AS] EXCEPT
                         !.weight = [e \in DOMAIN asg[data.AS].weight |-> 1]]},
               st \in {[seen |-> (source :> 0), plen |-> (source :> 1),
                        fringe |-> {<<0, 0, source>>}, c |-> 1]}})

\* len(path) of distance(router, nexthop); 0 when dijkstra_path raises
distance(net, asg, router, nexthop) ==
    LET data == net.nodes[router]
        source == Addr(data.AS, data.id)
    IN Only({Dijkstra(g, nexthop, {}, st) :
               g \in {asg[data.AS]},
               st \in {[seen |-> (source :> 0), plen |-> (source :> 1),
                        fringe |-> {<<0, 0, source>>}, c |-> 1]}})

-----------------------------------------------------------------------------
(* Iteration order of a set of routes *)

RouteKey(r) ==
    r.nexthop \o <<r.router_id, r.pref, r.med, IF r.src = "ebgp" THEN 0 ELSE 1,
                   Len(r.as_path)>> \o r.as_path \o r.prefix

RECURSIVE SortedSeq(_)
SortedSeq(S) ==
    IF S = {} THEN <<>>
    ELSE Only({Only({<<m>> \o SortedSeq(rest) : rest \in {S \ {m}}}) :
                 m \in {x \in S : \A y \in S \ {x} : LexLess(RouteKey(x), RouteKey(y))}})

Reverse(s) == [i \in 1..Len(s) |-> s[Len(s) + 1 - i]]

\* "for route in routes" over a Python set: the order follows the hashes of the
\* routes, which follow the process's hash seed (the fields prefix, nexthop and
\* src are strings).  Two seeds are modelled: one iterates a set in ascending
\* order of RouteKey, the other in descending order.
HashSeeds == {0, 1}

SetOrder(S, seed) == IF seed = 0 THEN SortedSeq(S) ELSE Reverse(SortedSeq(S))

-----------------------------------------------------------------------------
(* Decision process *)

\* variant: a comparison on as_path length alone
LtByLength(self, other) == Len(self.as_path) < Len(other.as_path)

\* BGPRoute.__lt__ (None, returned when pref and length tie, is false)
Lt(self, other) ==
    IF self.pref # other.pref THEN self.pref > other.pref
    ELSE IF Len(self.as_path) # Len(other.as_path)
         THEN Len(self.as_path) < Len(other.as_path)
         ELSE FALSE

\* lines 73-77: the first pass
RECURSIVE FirstPass(_, _)
FirstPass(routes, best) ==
    IF routes = <<>> THEN best
    ELSE Only({FirstPass(Tail(routes), best2) :
                 best2 \in {IF best = NoRoute \/ Lt(Head(routes), best)
                            THEN Head(routes) ELSE best}})

GroupIndex(groups, key) ==
    IF \E i \in 1..Len(groups) : groups[i].key = key
    THEN CHOOSE i \in 1..Len(groups) : groups[i].key = key
    ELSE 0

\* variant: the MED stage as a single minimum over every leftmost AS
RECURSIVE MedPassGlobal(_, _, _)
MedPassGlobal(routes, best, lowest_med) ==
    IF routes = <<>> THEN lowest_med
    ELSE LET route == Head(routes)
         IN Only({MedPassGlobal(Tail(routes), best, lowest_med2) :
                    lowest_med2 \in
                      {IF route.pref # best.pref \/ Len(route.as_path) # Len(best.as_path)
                       THEN lowest_med
                       ELSE IF lowest_med[1].routes[1].med > route.med
                       THEN [lowest_med EXCEPT ![1].routes = <<route>>]
                       ELSE IF lowest_med[1].routes[1].med = route.med
                       THEN [lowest_med EXCEPT ![1].routes = Append(@, route)]
                       ELSE lowest_med}})

\* variant: the MED stage keeping the highest med of each group
RECURSIVE MedPassHighest(_, _, _)
MedPassHighest(routes, best, lowest_med) ==
    IF routes = <<>> THEN lowest_med
    ELSE LET route == Head(routes)
             i == GroupIndex(lowest_med, route.as_path[1])
         IN Only({MedPassHighest(Tail(routes), best, lowest_med2) :
                    lowest_med2 \in
                      {IF route.pref # best.pref \/ Len(route.as_path) # Len(best.as_path)
                       THEN lowest_med
                       ELSE IF i = 0
                       THEN Append(lowest_med,
                                   [key |-> route.as_path[1], routes |-> <<route>>])
                       ELSE IF lowest_med[i].routes[1].med < route.med
                       THEN [lowest_med EXCEPT ![i].routes = <<route>>]
                       ELSE IF lowest_med[i].routes[1].med = route.med
                       THEN [lowest_med EXCEPT ![i].routes = Append(@, route)]
                       ELSE lowest_med}})

\* lines 81-93: lowest_med, a dict in insertion order, as a sequence of groups
RECURSIVE MedPass(_, _, _)
MedPass(routes, best, lowest_med) ==
    IF routes = <<>> THEN lowest_med
    ELSE LET route == Head(routes)
             i == GroupIndex(lowest_med, route.as_path[1])
         IN Only({MedPass(Tail(routes), best, lowest_med2) :
                    lowest_med2 \in
                      {IF route.pref # best.pref \/ Len(route.as_path) # Len(best.as_path)
                       THEN lowest_med
                       ELSE IF i = 0
                       THEN Append(lowest_med,
                                   [key |-> route.as_path[1], routes |-> <<route>>])
                       ELSE IF lowest_med[i].routes[1].med > route.med
                       THEN [lowest_med EXCEPT ![i].routes = <<route>>]
                       ELSE IF lowest_med[i].routes[1].med = route.med
                       THEN [lowest_med EXCEPT ![i].routes = Append(@, route)]
                       ELSE lowest_med}})

\* lines 95-97
RECURSIVE Flatten(_)
Flatten(lowest_med) ==
    IF lowest_med = <<>> THEN <<>>
    ELSE Only({Head(lowest_med).routes \o Flatten(rest) : rest \in {Tail(lowest_med)}})

\* variant: a last pass on router_id alone
FoldByRouterId(net, asg, router, best, route) ==
    [err |-> FALSE,
     best |-> IF best = NoRoute THEN route
              ELSE IF best.router_id < route.router_id THEN best ELSE route]

\* lines 101-108: one step of the last pass; err when distance raises
FoldStep(net, asg, router, best, route) ==
    IF best = NoRoute THEN [err |-> FALSE, best |-> route]
    ELSE IF route.src # best.src
    THEN [err |-> FALSE, best |-> IF best.src = "ebgp" THEN best ELSE route]
    ELSE IF route.src = "ibgp"
    THEN Only({IF dr = 0 \/ db = 0 THEN [err |-> TRUE, best |-> NoRoute]
               ELSE IF dr # db THEN [err |-> FALSE, best |-> IF db < dr THEN best ELSE route]
               ELSE [err |-> FALSE,
                     best |-> IF best.router_id < route.router_id THEN best ELSE route] :
                 dr \in {distance(net, asg, router, route.nexthop)},
                 db \in {distance(net, asg, router, best.nexthop)}})
    ELSE [err |-> FALSE, best |-> IF best.router_id < route.router_id THEN best ELSE route]

RECURSIVE LastPass(_, _, _, _, _)
LastPass(net, asg, router, routes, acc) ==
    IF routes = <<>> \/ acc.err THEN acc
    ELSE Only({LastPass(net, asg, router, Tail(routes), acc2) :
                 acc2 \in {FoldStep(net, asg, router, acc.best, Head(routes))}})

\* decision_process on the routes in the order the set yields them
DecideSeq(net, asg, router, routes) ==
    Only({IF best = NoRoute THEN [err |-> FALSE, best |-> NoRoute]
          ELSE Only({LastPass(net, asg, router, survivors,
                              [err |-> FALSE, best |-> NoRoute]) :
                       survivors \in
                         {Flatten(MedPass(routes, best,
                                          <<[key |-> best.as_path[1],
                                             routes |-> <<best>>]>>))}}) :
            best \in {FirstPass(routes, NoRoute)}})

Routes(tables, router, prefix) ==
    IF prefix \in DOMAIN tables[router] THEN tables[router][prefix] ELSE {}

decision_process(net, asg, tables, seed, router, prefix) ==
    Only({DecideSeq(net, asg, router, routes) :
            routes \in {SetOrder(Routes(tables, router, prefix), seed)}})

-----------------------------------------------------------------------------
(* Topology queries *)

Data(net, router) == net.nodes[router]

MyAddr(net, router) == Addr(Data(net, router).AS, Data(net, router).id)

\* self.network.adj[u][v]
Edge(net, u, v) == net.adj[u][EdgeIndex(net.adj[u], v)]

HasEdge(net, u, v) == EdgeIndex(net.adj[u], v) # 0

\* the names of self.AS[AS].nodes(data=True), in order
ASRouters(asg, as) == [i \in 1..Len(asg[as].nodes) |-> asg[as].nodes[i].name]

RECURSIVE Concat(_)
Concat(ss) ==
    IF ss = <<>> THEN <<>>
    ELSE Only({Head(ss) \o Concat(rest) : rest \in {Tail(ss)}})

-----------------------------------------------------------------------------
(* announce_route, update, withdraw *)

\* variant: announce_route without its loop check
LoopNeverDetected(net, current, route) == FALSE

\* variant: a loop check that looks at the leftmost AS only
LoopAtNeighbour(net, current, route) == Data(net, current).AS = route.as_path[1]

\* line 202: AS in route.as_path
LoopDetected(net, current, route) == Data(net, current).AS \in Elems(route.as_path)

\* lines 116 and 158
TypeRel(net, route, current, origin) ==
    IF route.src = "ibgp" THEN "internal" ELSE Edge(net, current, origin).type

\* variant: one pref for every relation
StampFlat(type_rel, route) == PrefPeer

\* lines 120-125 and 160-165
StampPref(type_rel, route) ==
    CASE type_rel = "provider" -> PrefProvider
      [] type_rel = "peer" -> PrefPeer
      [] type_rel = "customer" -> PrefCustomer
      [] type_rel = "internal" -> route.pref

\* variant: the received route stored as it came
StoredAsReceived(net, route, pref, origin) == route

\* line 126: the route as stored
Stored(net, route, pref, origin) ==
    BGPRoute(route.prefix, route.nexthop, route.as_path, pref, route.med,
             Data(net, origin).id, route.src)

\* routes.add(...) of line 126 and line 127
Insert(tables, current, prefix, route) ==
    [tables EXCEPT ![current] = Put(@, prefix, Routes(tables, current, prefix) \cup {route})]

\* variant: propagation on every UPDATE
AlwaysChanged(previous_best, best) == TRUE

\* line 129
BestChanged(previous_best, best) == previous_best # best

\* variant: the next hop is left as it was learned
IbgpShadowSameHop(net, current, r, pref) ==
    BGPRoute(r.prefix, r.nexthop, r.as_path, pref, r.med, Data(net, current).id, "ibgp")

\* the iBGP shadow of lines 136, 138, 181 and 185
IbgpShadow(net, current, r, pref) ==
    BGPRoute(r.prefix, MyAddr(net, current), r.as_path, pref, r.med,
             Data(net, current).id, "ibgp")

\* the eBGP shadow of lines 141, 148, 176 and 195
EbgpShadow(net, current, r, med) ==
    BGPRoute(r.prefix, MyAddr(net, current), <<Data(net, current).AS>> \o r.as_path,
             -1, med, -1, "ebgp")

\* variant: no export filter
ExportsAll(type_rel, neigh_type) == TRUE

\* line 151: the export filter of update, TRUE when the UPDATE is sent
UpdateExports(type_rel, neigh_type) ==
    ~(type_rel # "customer" /\ neigh_type # "customer")

\* line 192: the export filter of withdraw, TRUE when the UPDATE is sent
WithdrawExports(new_best, neigh_type) ==
    ~(new_best.pref # PrefCustomer /\ neigh_type # "customer")

\* lines 131-140: the announce_route calls of update's first loop
UpdateIbgp(net, asg, current, route, pref, previous_best) ==
    LET names == ASRouters(asg, Data(net, current).AS)
        one(router) ==
            IF router = current THEN <<>>
            ELSE (IF previous_best # NoRoute /\ previous_best.src # "ibgp"
                  THEN <<Message("WITHDRAW",
                                 IbgpShadow(net, current, previous_best, previous_best.pref),
                                 router, current)>>
                  ELSE <<>>)
                 \o
                 (IF route.src # "ibgp"
                  THEN <<Message("UPDATE", IbgpShadow(net, current, route, pref),
                                 router, current)>>
                  ELSE <<>>)
    IN Concat([i \in 1..Len(names) |-> one(names[i])])

\* lines 141-153: the announce_route calls of update's second loop
UpdateEbgp(net, current, route, type_rel, previous_best) ==
    LET adjseq == net.adj[current]
        one(data) ==
            IF data.type = "internal" THEN <<>>
            ELSE (IF previous_best # NoRoute
                  THEN <<Message("WITHDRAW", EbgpShadow(net, current, previous_best, data.med),
                                 data.neigh, current)>>
                  ELSE <<>>)
                 \o
                 (IF UpdateExports(type_rel, data.type)
                  THEN <<Message("UPDATE", EbgpShadow(net, current, route, data.med),
                                 data.neigh, current)>>
                  ELSE <<>>)
    IN Concat([i \in 1..Len(adjseq) |-> one(adjseq[i])])

\* lines 178-186: the announce_route calls of withdraw's first loop
\* (no router of the AS is skipped: current is one of them)
WithdrawIbgp(net, asg, current, best, new_best) ==
    LET names == ASRouters(asg, Data(net, current).AS)
        one(router) ==
            (IF best.src # "ibgp"
             THEN <<Message("WITHDRAW", IbgpShadow(net, current, best, best.pref),
                            router, current)>>
             ELSE <<>>)
            \o
            (IF new_best.src # "ibgp"
             THEN <<Message("UPDATE", IbgpShadow(net, current, new_best, new_best.pref),
                            router, current)>>
             ELSE <<>>)
    IN Concat([i \in 1..Len(names) |-> one(names[i])])

\* to_remove as the second loop of withdraw finds it: line 181 has rebound it
\* to the iBGP shadow when best is not an iBGP route (the AS holds current at
\* least), else it is the eBGP shadow of line 176
WithdrawToRemove(net, current, best) ==
    IF best.src # "ibgp" THEN IbgpShadow(net, current, best, best.pref)
    ELSE EbgpShadow(net, current, best, -1)

\* line 166 at the receiver of to_remove: one object is sent to every
\* neighbour, and a receiver that passes the loop check writes its pref
PrefAfterReceipt(net, neigh, current, route) ==
    IF LoopDetected(net, neigh, route) THEN route.pref
    ELSE StampPref(TypeRel(net, route, neigh, current), route)

\* lines 187-197: the announce_route calls of withdraw's second loop
RECURSIVE WithdrawEbgp(_, _, _, _, _)
WithdrawEbgp(net, current, adjseq, to_remove, new_best) ==
    IF adjseq = <<>> THEN <<>>
    ELSE LET data == Head(adjseq)
             sent == [to_remove EXCEPT !.med = data.med]
         IN IF data.type = "internal"
            THEN WithdrawEbgp(net, current, Tail(adjseq), to_remove, new_best)
            ELSE <<Message("WITHDRAW", sent, data.neigh, current)>>
                 \o
                 (IF WithdrawExports(new_best, data.type)
                  THEN <<Message("UPDATE", EbgpShadow(net, current, new_best, data.med),
                                 data.neigh, current)>>
                  ELSE <<>>)
                 \o
                 Only({WithdrawEbgp(net, current, Tail(adjseq), to_remove2, new_best) :
                         to_remove2 \in
                           {[sent EXCEPT
                               !.pref = PrefAfterReceipt(net, data.neigh, current, sent)]}})

\* a call frame: the call's arguments and locals, and the announce_route calls
\* its loops have not made yet
\* removed: withdraw has passed line 171
Frame(kind, m, previous_best, best, new_best, type_rel, removed, todo) ==
    [kind |-> kind, current |-> m.current, origin |-> m.origin, route |-> m.route,
     previous_best |-> previous_best, best |-> best, new_best |-> new_best,
     type_rel |-> type_rel, removed |-> removed, dup |-> FALSE, todo |-> todo]

\* update(route, current, origin): the tables it leaves, whether it raised,
\* and its frame when the first loop starts
update(net, asg, tables, seed, m) ==
    LET route == m.route
        current == m.current
        type_rel == TypeRel(net, route, current, m.origin)
        pref == StampPref(type_rel, route)
    IN Only({Only({LET todo == IF BestChanged(prev.best, new.best)
                               THEN UpdateIbgp(net, asg, current, route, pref, prev.best)
                                    \o UpdateEbgp(net, current, route, type_rel, prev.best)
                               ELSE <<>>
                   IN IF prev.err THEN [tables |-> tables, err |-> TRUE, frame |-> <<>>]
                      ELSE IF new.err
                      THEN [tables |-> tables2, err |-> TRUE, frame |-> <<>>]
                      ELSE [tables |-> tables2, err |-> FALSE,
                            frame |-> <<Frame("update", m, prev.best, new.best, NoRoute,
                                              type_rel, FALSE, todo)>>] :
                     new \in {IF tables2 = tables THEN prev
                              ELSE decision_process(net, asg, tables2, seed, current,
                                                    route.prefix)}}) :
               prev \in {decision_process(net, asg, tables, seed, current, route.prefix)},
               tables2 \in {Insert(tables, current, route.prefix,
                                   Stored(net, route, pref, m.origin))}})

\* variant: every removal is taken for the loss of the best route
LostAny(best, route) == TRUE

\* line 172
LostBest(best, route) == best = route

\* variant: the handler goes on without a replacement
NeverNone(new_best) == FALSE

\* line 174
NoneLeft(new_best) == new_best = NoRoute

\* withdraw(route, current, origin)
withdraw(net, asg, tables, seed, m) ==
    LET current == m.current
        type_rel == TypeRel(net, m.route, current, m.origin)
        route == [m.route EXCEPT !.pref = StampPref(type_rel, m.route)]
        present == route \in Routes(tables, current, route.prefix)
    IN Only({Only({LET todo == IF ~NoneLeft(new.best)
                               THEN WithdrawIbgp(net, asg, current, best.best, new.best)
                                    \o WithdrawEbgp(net, current, net.adj[current],
                                                    WithdrawToRemove(net, current,
                                                                     best.best),
                                                    new.best)
                               ELSE <<>>
                   IN IF best.err THEN [tables |-> tables, err |-> TRUE, frame |-> <<>>]
                      ELSE IF new.err
                      THEN [tables |-> tables2, err |-> TRUE, frame |-> <<>>]
                      ELSE [tables |-> tables2, err |-> FALSE,
                            frame |-> <<Frame("withdraw", [m EXCEPT !.route = route],
                                              NoRoute, best.best, new.best, type_rel,
                                              present, todo)>>] :
                     new \in {IF present /\ LostBest(best.best, route)
                              THEN decision_process(net, asg, tables2, seed, current,
                                                    route.prefix)
                              ELSE [err |-> FALSE, best |-> NoRoute]}}) :
               best \in {decision_process(net, asg, tables, seed, current,
                                          m.route.prefix)},
               tables2 \in {IF present
                            THEN [tables EXCEPT ![current][route.prefix] = @ \ {route}]
                            ELSE tables}})

\* lines 213-215: the route announce_prefix creates
SelfRoute(net, router) ==
    BGPRoute(Prefix(Data(net, router).AS), MyAddr(net, router), <<Data(net, router).AS>>,
             PrefSelf, 0, -1, "ebgp")

\* lines 217-219: one entry per neighbour, internal ones included; reading
\* "med" of an edge that has none raises KeyError
AnnounceCalls(net, router) ==
    LET adjseq == net.adj[router]
    IN [i \in 1..Len(adjseq) |->
           IF adjseq[i].hasMed
           THEN Message("UPDATE", [SelfRoute(net, router) EXCEPT !.med = adjseq[i].med],
                        adjseq[i].neigh, router)
           ELSE Message("KeyError", SelfRoute(net, router), adjseq[i].neigh, router)]

\* announce_prefix(router), up to its loop
AnnounceFrame(net, router) ==
    [kind |-> "announce_prefix", current |-> router, origin |-> router,
     route |-> SelfRoute(net, router), previous_best |-> NoRoute, best |-> NoRoute,
     new_best |-> NoRoute, type_rel |-> "none", removed |-> FALSE, dup |-> FALSE,
     todo |-> AnnounceCalls(net, router)]

-----------------------------------------------------------------------------
(* Construction: the calls a script makes before it announces a prefix *)

\* the routers a script of the model declares, in the order of its add_router calls
RouterDecls ==
    << [name |-> "b", AS |-> 2, id |-> 1],
       [name |-> "c", AS |-> 3, id |-> 2],
       [name |-> "a1", AS |-> 1, id |-> 1],
       [name |-> "a2", AS |-> 1, id |-> 2] >>

RouterIndex(name) == CHOOSE i \in 1..Len(RouterDecls) : RouterDecls[i].name = name

\* the med values a script passes to add_peer_link and add_provider_customer
Meds == {0}

\* the cost values a script passes to add_internal_link
Costs == {1}

CurrentBuild == [network |-> network, asgraph |-> asgraph, bgp_tables |-> bgp_tables]

SetBuild(b) ==
    /\ network' = b.network
    /\ asgraph' = b.asgraph
    /\ bgp_tables' = b.bgp_tables

Building == stack = <<>> /\ announced = <<>> /\ error = "none" /\ run = 1 /\ script = <<>>

NumRouters == Cardinality(DOMAIN network.nodes)

LinkRanks ==
    UNION {{RouterIndex(r) * 10 + RouterIndex(network.adj[r][i].neigh) :
               i \in 1..Len(network.adj[r])} : r \in DOMAIN network.adj}

NumLinks == Cardinality(LinkRanks) \div 2

\* a script links each pair once, the pairs in the order of the declarations
MayLink(r1, r2) ==
    /\ Building
    /\ NumRouters = Len(RouterDecls)
    /\ NumLinks < MaxLinks
    /\ RouterIndex(r1) < RouterIndex(r2)
    /\ \A k \in LinkRanks : k \div 10 > k % 10 \/ k < RouterIndex(r1) * 10 + RouterIndex(r2)

AddRouter ==
    /\ Building
    /\ NumRouters < Len(RouterDecls)
    /\ LET d == RouterDecls[NumRouters + 1]
       IN SetBuild(add_router(CurrentBuild, d.name, d.AS, d.id))
    /\ UNCHANGED <<stack, error, hashseed, announced, returned, run, firstTables, script, selected, measured>>

AddPeerLink ==
    /\ \E r1, r2 \in DOMAIN network.nodes, med \in Meds :
          /\ MayLink(r1, r2)
          /\ SetBuild(add_peer_link(CurrentBuild, r1, r2, med))
    /\ UNCHANGED <<stack, error, hashseed, announced, returned, run, firstTables, script, selected, measured>>

AddProviderCustomer ==
    /\ \E r1, r2 \in DOMAIN network.nodes, med \in Meds, down \in BOOLEAN :
          /\ MayLink(r1, r2)
          /\ SetBuild(IF down THEN add_provider_customer(CurrentBuild, r1, r2, med)
                      ELSE add_provider_customer(CurrentBuild, r2, r1, med))
    /\ UNCHANGED <<stack, error, hashseed, announced, returned, run, firstTables, script, selected, measured>>

AddInternalLink ==
    /\ \E r1, r2 \in DOMAIN network.nodes, cost \in Costs :
          /\ MayLink(r1, r2)
          /\ network.nodes[r1].AS = network.nodes[r2].AS
          /\ SetBuild(add_internal_link(CurrentBuild, r1, r2, cost))
    /\ UNCHANGED <<stack, error, hashseed, announced, returned, run, firstTables, script, selected, measured>>

-----------------------------------------------------------------------------
(* The run: announce_prefix and the calls it makes *)

\* variant: announce_prefix leaving its router's set empty
OriginateEmpty(net, tables, router) ==
    [tables EXCEPT ![router] = Put(@, SelfRoute(net, router).prefix, {})]

\* line 216 and the frame of announce_prefix(router), on tables
Originate(net, tables, router) ==
    [tables EXCEPT ![router] = Put(@, SelfRoute(net, router).prefix, {SelfRoute(net, router)})]

AnnounceAt(router) ==
    /\ stack = <<>> /\ error = "none" /\ announced = <<>> /\ script = <<>>
    /\ bgp_tables' = Originate(network, bgp_tables, router)
    /\ stack' = <<AnnounceFrame(network, router)>>
    /\ announced' = Append(announced, router)
    /\ returned' = NoMessage
    /\ UNCHANGED <<network, asgraph, error, hashseed, run, firstTables, script, selected, measured>>

AnnouncePrefix == \E router \in DOMAIN network.nodes : AnnounceAt(router)

Top == Head(stack)

Calling == stack # <<>> /\ Top.todo # <<>>

Next1 == Head(Top.todo)

\* line 218: announce_prefix writes the med of the edge into the route object,
\* which is the one element of its router's set
CallerTables ==
    IF Top.kind = "announce_prefix"
    THEN [bgp_tables EXCEPT ![Top.current][Top.route.prefix] = (@ \ {Top.route}) \cup {Next1.route}]
    ELSE bgp_tables

\* variant: a caller that never moves to its next neighbour
NotAdvanced == stack

\* the stack once the caller has made the call
Advanced ==
    <<[Top EXCEPT !.todo = Tail(@),
                  !.route = IF Top.kind = "announce_prefix" THEN Next1.route ELSE @]>>
    \o Tail(stack)

\* announce_route returns at line 203
LoopDrop ==
    /\ Calling
    /\ Next1.type \in {"UPDATE", "WITHDRAW"}
    /\ LoopDetected(network, Next1.current, Next1.route)
    /\ bgp_tables' = CallerTables
    /\ stack' = Advanced
    /\ returned' = Next1
    /\ UNCHANGED <<network, asgraph, error, hashseed, announced, run, firstTables, script, selected, measured>>

\* what a handler's result does to the state
Handled(res, rest) ==
    /\ bgp_tables' = res.tables
    /\ stack' = IF res.err THEN <<>> ELSE res.frame \o rest
    /\ error' = IF res.err THEN "NetworkXNoPath" ELSE error
    /\ returned' = NoMessage

\* announce_route calls update, which runs up to its first loop
Update ==
    /\ Calling
    /\ Next1.type = "UPDATE"
    /\ ~LoopDetected(network, Next1.current, Next1.route)
    /\ Len(stack) < MaxDepth
    /\ \E tables \in {CallerTables} :
         \E res \in {update(network, asgraph, tables, hashseed, Next1)} :
            Handled(res, Advanced)
    /\ UNCHANGED <<network, asgraph, hashseed, announced, run, firstTables, script, selected, measured>>

\* announce_route calls withdraw, which runs up to its first loop
Withdraw ==
    /\ Calling
    /\ Next1.type = "WITHDRAW"
    /\ ~LoopDetected(network, Next1.current, Next1.route)
    /\ Len(stack) < MaxDepth
    /\ \E tables \in {CallerTables} :
         \E res \in {withdraw(network, asgraph, tables, hashseed, Next1)} :
            Handled(res, Advanced)
    /\ UNCHANGED <<network, asgraph, hashseed, announced, run, firstTables, script, selected, measured>>

\* line 218 raises KeyError: the edge to the neighbour has no "med"
AnnounceKeyError ==
    /\ Calling
    /\ Next1.type = "KeyError"
    /\ error' = "KeyError"
    /\ stack' = <<>>
    /\ returned' = NoMessage
    /\ UNCHANGED <<network, asgraph, bgp_tables, hashseed, announced, run, firstTables, script, selected, measured>>

FrameMessage(f) ==
    Message(IF f.kind = "update" THEN "UPDATE" ELSE "WITHDRAW", f.route, f.current, f.origin)

\* the call on top of the stack has made all its calls: it returns
Return ==
    /\ stack # <<>>
    /\ Top.todo = <<>>
    /\ stack' = Tail(stack)
    /\ returned' = IF Top.kind = "announce_prefix" THEN NoMessage ELSE FrameMessage(Top)
    /\ UNCHANGED <<network, asgraph, bgp_tables, error, hashseed, announced, run, firstTables, script, selected, measured>>

-----------------------------------------------------------------------------
(* Specifications *)

Init ==
    /\ network = EmptyNetwork
    /\ asgraph = EmptyMap
    /\ bgp_tables = EmptyMap
    /\ stack = <<>>
    /\ error = "none"
    /\ hashseed \in HashSeeds
    /\ announced = <<>>
    /\ returned = NoMessage
    /\ run = 1
    /\ firstTables = EmptyMap
    /\ script = <<>>
    /\ selected = NoRoute
    /\ measured = NoMeasure

Next ==
    \/ AddRouter
    \/ AddPeerLink
    \/ AddProviderCustomer
    \/ AddInternalLink
    \/ AnnouncePrefix
    \/ LoopDrop
    \/ Update
    \/ Withdraw
    \/ AnnounceKeyError
    \/ Return

Spec == Init /\ [][Next]_vars

-----------------------------------------------------------------------------
(* The scenarios of src/bgp/tests *)

\* a script's construction calls, applied in order
RECURSIVE RunScript(_, _)
RunScript(calls, b) ==
    IF calls = <<>> THEN b
    ELSE LET c == Head(calls)
         IN Only({RunScript(Tail(calls), b2) :
                    b2 \in
                      {CASE c[1] = "add_router" -> add_router(b, c[2], c[3], c[4])
                         [] c[1] = "add_peer_link" -> add_peer_link(b, c[2], c[3], c[4])
                         [] c[1] = "add_provider_customer" ->
                              add_provider_customer(b, c[2], c[3], c[4])
                         [] c[1] = "add_internal_link" ->
                              add_internal_link(b, c[2], c[3], c[4])}})

\* a test starts from BGPNetwork() with its construction calls to make
ScriptInit(calls) ==
    /\ network = EmptyNetwork
    /\ asgraph = EmptyMap
    /\ bgp_tables = EmptyMap
    /\ stack = <<>>
    /\ error = "none"
    /\ hashseed \in HashSeeds
    /\ announced = <<>>
    /\ returned = NoMessage
    /\ run = 1
    /\ firstTables = EmptyMap
    /\ script = calls
    /\ selected = NoRoute
    /\ measured = NoMeasure

\* the test makes its next construction call
ScriptCall ==
    /\ script # <<>>
    /\ SetBuild(RunScript(<<Head(script)>>, CurrentBuild))
    /\ script' = Tail(script)
    /\ UNCHANGED <<stack, error, hashseed, announced, returned, run, firstTables, selected, measured>>

\* the run is over: announce_prefix has returned or an exception has ended it
Done == announced # <<>> /\ stack = <<>>

\* test_ebgp.py
EbgpScript ==
    << <<"add_router", "r1", 1, 1>>,
       <<"add_router", "r2", 2, 2>>,
       <<"add_router", "r3", 3, 3>>,
       <<"add_router", "r4", 4, 4>>,
       <<"add_router", "r5", 5, 5>>,
       <<"add_router", "r6", 6, 6>>,
       <<"add_router", "r7", 7, 7>>,
       <<"add_router", "r8", 8, 8>>,
       <<"add_peer_link", "r2", "r3", 0>>,
       <<"add_peer_link", "r4", "r5", 0>>,
       <<"add_peer_link", "r5", "r6", 0>>,
       <<"add_peer_link", "r6", "r8", 0>>,
       <<"add_provider_customer", "r3", "r1", 0>>,
       <<"add_provider_customer", "r1", "r2", 0>>,
       <<"add_provider_customer", "r4", "r3", 0>>,
       <<"add_provider_customer", "r5", "r2", 0>>,
       <<"add_provider_customer", "r7", "r4", 0>>,
       <<"add_provider_customer", "r6", "r7", 0>>,
       <<"add_provider_customer", "r8", "r7", 0>> >>

EbgpExpectedRoutes ==
    [
      r1 |->
        (<<10, 0, 2, 0>> :> {
            BGPRoute(<<10, 0, 2, 0>>, <<10, 0, 3, 3>>, <<3, 2>>, 50, 0, 3, "ebgp"),
            BGPRoute(<<10, 0, 2, 0>>, <<10, 0, 2, 2>>, <<2>>, 150, 0, 2, "ebgp")}),
      r2 |->
        (<<10, 0, 2, 0>> :> {
            BGPRoute(<<10, 0, 2, 0>>, <<10, 0, 2, 2>>, <<2>>, 1000, 0, -1, "ebgp")}),
      r3 |->
        (<<10, 0, 2, 0>> :> {
            BGPRoute(<<10, 0, 2, 0>>, <<10, 0, 2, 2>>, <<2>>, 100, 0, 2, "ebgp"),
            BGPRoute(<<10, 0, 2, 0>>, <<10, 0, 1, 1>>, <<1, 2>>, 150, 0, 1, "ebgp")}),
      r4 |->
        (<<10, 0, 2, 0>> :> {
            BGPRoute(<<10, 0, 2, 0>>, <<10, 0, 3, 3>>, <<3, 1, 2>>, 150, 0, 3, "ebgp"),
            BGPRoute(<<10, 0, 2, 0>>, <<10, 0, 5, 5>>, <<5, 2>>, 100, 0, 5, "ebgp")}),
      r5 |->
        (<<10, 0, 2, 0>> :> {
            BGPRoute(<<10, 0, 2, 0>>, <<10, 0, 2, 2>>, <<2>>, 150, 0, 2, "ebgp"),
            BGPRoute(<<10, 0, 2, 0>>, <<10, 0, 4, 4>>, <<4, 3, 1, 2>>, 100, 0, 4, "ebgp"),
            BGPRoute(<<10, 0, 2, 0>>, <<10, 0, 6, 6>>, <<6, 7, 4, 3, 1, 2>>, 100, 0, 6, "ebgp")}),
      r6 |->
        (<<10, 0, 2, 0>> :> {
            BGPRoute(<<10, 0, 2, 0>>, <<10, 0, 7, 7>>, <<7, 4, 3, 1, 2>>, 150, 0, 7, "ebgp"),
            BGPRoute(<<10, 0, 2, 0>>, <<10, 0, 5, 5>>, <<5, 2>>, 100, 0, 5, "ebgp"),
            BGPRoute(<<10, 0, 2, 0>>, <<10, 0, 8, 8>>, <<8, 7, 4, 3, 1, 2>>, 100, 0, 8, "ebgp")}),
      r7 |->
        (<<10, 0, 2, 0>> :> {
            BGPRoute(<<10, 0, 2, 0>>, <<10, 0, 4, 4>>, <<4, 3, 1, 2>>, 150, 0, 4, "ebgp")}),
      r8 |->
        (<<10, 0, 2, 0>> :> {
            BGPRoute(<<10, 0, 2, 0>>, <<10, 0, 7, 7>>, <<7, 4, 3, 1, 2>>, 150, 0, 7, "ebgp"),
            BGPRoute(<<10, 0, 2, 0>>, <<10, 0, 6, 6>>, <<6, 7, 4, 3, 1, 2>>, 100, 0, 6, "ebgp")})
    ]

EbgpInit == ScriptInit(EbgpScript)

EbgpAnnounce == AnnounceAt("r2")

EbgpNext ==
    \/ ScriptCall
    \/ EbgpAnnounce
    \/ LoopDrop
    \/ Update
    \/ Withdraw
    \/ Return

SpecEbgp == EbgpInit /\ [][EbgpNext]_vars

\* test_ibgp.py
IbgpScript ==
    << <<"add_router", "r1", 1, 1>>,
       <<"add_router", "r2", 1, 2>>,
       <<"add_router", "r3", 1, 3>>,
       <<"add_router", "r4", 1, 4>>,
       <<"add_router", "r5", 1, 5>>,
       <<"add_router", "r6", 1, 6>>,
       <<"add_router", "r21", 2, 21>>,
       <<"add_router", "r31", 3, 31>>,
       <<"add_router", "r41", 4, 41>>,
       <<"add_router", "r42", 4, 42>>,
       <<"add_router", "r51", 5, 51>>,
       <<"add_provider_customer", "r21", "r51", 0>>,
       <<"add_provider_customer", "r21", "r41", 0>>,
       <<"add_provider_customer", "r41", "r5", 3>>,
       <<"add_provider_customer", "r42", "r4", 0>>,
       <<"add_provider_customer", "r51", "r3", 0>>,
       <<"add_provider_customer", "r31", "r1", 7>>,
       <<"add_provider_customer", "r31", "r6", 1>>,
       <<"add_provider_customer", "r51", "r31", 0>>,
       <<"add_internal_link", "r1", "r6", 1>>,
       <<"add_internal_link", "r3", "r6", 3>>,
       <<"add_internal_link", "r1", "r2", 1>>,
       <<"add_internal_link", "r1", "r3", 1>>,
       <<"add_internal_link", "r2", "r4", 1>>,
       <<"add_internal_link", "r5", "r6", 1>>,
       <<"add_internal_link", "r4", "r5", 7>>,
       <<"add_internal_link", "r41", "r42", 2>> >>

IbgpExpectedRoutes ==
    [
      r1 |->
        (<<10, 0, 2, 0>> :> {
            BGPRoute(<<10, 0, 2, 0>>, <<10, 0, 1, 3>>, <<5, 2>>, 50, 0, 3, "ibgp"),
            BGPRoute(<<10, 0, 2, 0>>, <<10, 0, 1, 4>>, <<4, 2>>, 50, 0, 4, "ibgp"),
            BGPRoute(<<10, 0, 2, 0>>, <<10, 0, 3, 31>>, <<3, 5, 2>>, 50, 7, 31, "ebgp")}),
      r2 |->
        (<<10, 0, 2, 0>> :> {
            BGPRoute(<<10, 0, 2, 0>>, <<10, 0, 1, 3>>, <<5, 2>>, 50, 0, 3, "ibgp"),
            BGPRoute(<<10, 0, 2, 0>>, <<10, 0, 1, 4>>, <<4, 2>>, 50, 0, 4, "ibgp")}),
      r3 |->
        (<<10, 0, 2, 0>> :> {
            BGPRoute(<<10, 0, 2, 0>>, <<10, 0, 5, 51>>, <<5, 2>>, 50, 0, 51, "ebgp"),
            BGPRoute(<<10, 0, 2, 0>>, <<10, 0, 1, 4>>, <<4, 2>>, 50, 0, 4, "ibgp")}),
      r4 |->
        (<<10, 0, 2, 0>> :> {
            BGPRoute(<<10, 0, 2, 0>>, <<10, 0, 1, 3>>, <<5, 2>>, 50, 0, 3, "ibgp"),
            BGPRoute(<<10, 0, 2, 0>>, <<10, 0, 4, 42>>, <<4, 2>>, 50, 0, 42, "ebgp")}),
      r5 |->
        (<<10, 0, 2, 0>> :> {
            BGPRoute(<<10, 0, 2, 0>>, <<10, 0, 1, 3>>, <<5, 2>>, 50, 0, 3, "ibgp"),
            BGPRoute(<<10, 0, 2, 0>>, <<10, 0, 4, 41>>, <<4, 2>>, 50, 3, 41, "ebgp"),
            BGPRoute(<<10, 0, 2, 0>>, <<10, 0, 1, 4>>, <<4, 2>>, 50, 0, 4, "ibgp")}),
      r6 |->
        (<<10, 0, 2, 0>> :> {
            BGPRoute(<<10, 0, 2, 0>>, <<10, 0, 1, 3>>, <<5, 2>>, 50, 0, 3, "ibgp"),
            BGPRoute(<<10, 0, 2, 0>>, <<10, 0, 3, 31>>, <<3, 5, 2>>, 50, 1, 31, "ebgp"),
            BGPRoute(<<10, 0, 2, 0>>, <<10, 0, 1, 4>>, <<4, 2>>, 50, 0, 4, "ibgp")}),
      r21 |->
        (<<10, 0, 2, 0>> :> {
            BGPRoute(<<10, 0, 2, 0>>, <<10, 0, 2, 21>>, <<2>>, 1000, 0, -1, "ebgp")}),
      r31 |->
        (<<10, 0, 2, 0>> :> {
            BGPRoute(<<10, 0, 2, 0>>, <<10, 0, 5, 51>>, <<5, 2>>, 50, 0, 51, "ebgp")}),
      r41 |->
        (<<10, 0, 2, 0>> :> {
            BGPRoute(<<10, 0, 2, 0>>, <<10, 0, 2, 21>>, <<2>>, 50, 0, 21, "ebgp")}),
      r42 |->
        (<<10, 0, 2, 0>> :> {
            BGPRoute(<<10, 0, 2, 0>>, <<10, 0, 4, 41>>, <<2>>, 50, 0, 41, "ibgp")}),
      r51 |->
        (<<10, 0, 2, 0>> :> {
            BGPRoute(<<10, 0, 2, 0>>, <<10, 0, 2, 21>>, <<2>>, 50, 0, 21, "ebgp")})
    ]

IbgpInit == ScriptInit(IbgpScript)

IbgpAnnounce == AnnounceAt("r21")

IbgpNext ==
    \/ ScriptCall
    \/ IbgpAnnounce
    \/ Update
    \/ Withdraw
    \/ Return

SpecIbgp == IbgpInit /\ [][IbgpNext]_vars

-----------------------------------------------------------------------------
(* The run goes on: a call in progress is carried out *)

Running == LoopDrop \/ Update \/ Withdraw \/ AnnounceKeyError \/ Return

\* Python executes the call on top of the stack: the run is never suspended
FairSpec == Spec /\ WF_vars(Running)

-----------------------------------------------------------------------------
(* A duplicate delivery: the UPDATE whose call has just returned is delivered
   once more, by the same announcing neighbour to the same receiver *)

Redeliver ==
    /\ error = "none"
    /\ returned.type = "UPDATE"
    /\ ~LoopDetected(network, returned.current, returned.route)
    /\ Len(stack) < MaxDepth
    /\ \E res \in {update(network, asgraph, bgp_tables, hashseed, returned)} :
          /\ bgp_tables' = res.tables
          /\ stack' = IF res.err THEN <<>>
                      ELSE <<[res.frame[1] EXCEPT !.dup = TRUE]>> \o stack
          /\ error' = IF res.err THEN "NetworkXNoPath" ELSE error
    /\ returned' = NoMessage
    /\ UNCHANGED <<network, asgraph, hashseed, announced, run, firstTables, script, selected, measured>>

DupNext ==
    \/ AddRouter
    \/ AddPeerLink
    \/ AddProviderCustomer
    \/ AddInternalLink
    \/ AnnouncePrefix
    \/ LoopDrop
    \/ Update
    \/ Withdraw
    \/ AnnounceKeyError
    \/ Return
    \/ Redeliver

SpecDup == Init /\ [][DupNext]_vars

-----------------------------------------------------------------------------
(* A script run twice *)

\* the first run is over; the script starts again from BGPNetwork(), in a
\* Python process of any hash seed
StartAgain(calls) ==
    /\ Done /\ run = 1
    /\ firstTables' = bgp_tables
    /\ run' = 2
    /\ network' = EmptyNetwork
    /\ asgraph' = EmptyMap
    /\ bgp_tables' = EmptyMap
    /\ stack' = <<>>
    /\ error' = "none"
    /\ announced' = <<>>
    /\ returned' = NoMessage
    /\ script' = calls
    /\ UNCHANGED <<selected, measured>>

\* five routers with id 1, each in an AS of its own: o is a customer of a and
\* of b, c is a customer of a and of b, d is a customer of c
DiamondScript ==
    << <<"add_router", "o", 1, 1>>,
       <<"add_router", "a", 2, 1>>,
       <<"add_router", "b", 3, 1>>,
       <<"add_router", "c", 4, 1>>,
       <<"add_router", "d", 5, 1>>,
       <<"add_provider_customer", "a", "o", 0>>,
       <<"add_provider_customer", "b", "o", 0>>,
       <<"add_provider_customer", "a", "c", 0>>,
       <<"add_provider_customer", "b", "c", 0>>,
       <<"add_provider_customer", "c", "d", 0>> >>

RerunInit == ScriptInit(DiamondScript)

RerunAnnounce == AnnounceAt("o")

RerunSame ==
    /\ StartAgain(DiamondScript)
    /\ hashseed' \in HashSeeds

RerunNext ==
    \/ ScriptCall
    \/ RerunAnnounce
    \/ LoopDrop
    \/ Update
    \/ Withdraw
    \/ Return
    \/ RerunSame

SpecRerun == RerunInit /\ [][RerunNext]_vars

\* the routers r1, r2, r3 of test_ebgp.py and the three links between them
TriangleRouters ==
    << <<"add_router", "r1", 1, 1>>,
       <<"add_router", "r2", 2, 2>>,
       <<"add_router", "r3", 3, 3>> >>

TriangleLinks ==
    << <<"add_peer_link", "r2", "r3", 0>>,
       <<"add_provider_customer", "r3", "r1", 0>>,
       <<"add_provider_customer", "r1", "r2", 0>> >>

\* the orders in which a script can make the calls of a sequence
Orders(calls) ==
    {[i \in 1..Len(calls) |-> calls[p[i]]] :
        p \in {q \in [1..Len(calls) -> 1..Len(calls)] :
                  \A i, j \in 1..Len(calls) : i # j => q[i] # q[j]}}

ReorderInit == ScriptInit(TriangleRouters \o TriangleLinks)

ReorderAnnounce == AnnounceAt("r2")

\* the same topology, its links added in another order: every router then
\* iterates over its neighbours in another order
RerunReordered ==
    /\ \E links \in Orders(TriangleLinks) : StartAgain(TriangleRouters \o links)
    /\ UNCHANGED hashseed

ReorderNext ==
    \/ ScriptCall
    \/ ReorderAnnounce
    \/ LoopDrop
    \/ Update
    \/ Withdraw
    \/ Return
    \/ RerunReordered

SpecReorder == ReorderInit /\ [][ReorderNext]_vars

-----------------------------------------------------------------------------
(* A best route withdrawn over iBGP, with a replacement at hand *)

\* o (AS2) originates.  x (AS3) is a provider of o and a peer of m; m and l
\* (AS1) share an internal link; m is a provider of o, o is a provider of l,
\* and n (AS4) is a customer of l.  o announces to x, then l, then m: l first
\* selects the route m learned from x, which m withdraws when o's own
\* announcement reaches m.  The link between m and o carries the MED med
RecoveryScript(med) ==
    << <<"add_router", "o", 2, 1>>,
       <<"add_router", "x", 3, 1>>,
       <<"add_router", "m", 1, 1>>,
       <<"add_router", "l", 1, 2>>,
       <<"add_router", "n", 4, 1>>,
       <<"add_provider_customer", "x", "o", 0>>,
       <<"add_provider_customer", "o", "l", 0>>,
       <<"add_provider_customer", "m", "o", med>>,
       <<"add_peer_link", "x", "m", 0>>,
       <<"add_internal_link", "m", "l", 1>>,
       <<"add_provider_customer", "l", "n", 0>> >>

\* the MED values of the link between m and o
RecoveryMeds == {0, 5}

RecoveryInit == \E med \in RecoveryMeds : ScriptInit(RecoveryScript(med))

RecoveryAnnounce == AnnounceAt("o")

RecoveryNext ==
    \/ ScriptCall
    \/ RecoveryAnnounce
    \/ LoopDrop
    \/ Update
    \/ Withdraw
    \/ Return

SpecRecovery == RecoveryInit /\ [][RecoveryNext]_vars

-----------------------------------------------------------------------------
(* A router with two providers in one AS and a third in another *)

\* o originates; n3 of AS 2 and n1 of AS 1 are providers of o; n2 is the iBGP
\* peer of n1; n3, n2 and n1 are providers of R; k is a customer of R
MedScript(med) ==
    << <<"add_router", "o", 9, 1>>,
       <<"add_router", "n3", 2, 2>>,
       <<"add_router", "n1", 1, 3>>,
       <<"add_router", "n2", 1, 1>>,
       <<"add_router", "R", 4, 4>>,
       <<"add_router", "k", 5, 1>>,
       <<"add_provider_customer", "n3", "o", 0>>,
       <<"add_provider_customer", "n1", "o", 0>>,
       <<"add_internal_link", "n1", "n2", 1>>,
       <<"add_provider_customer", "n3", "R", 0>>,
       <<"add_provider_customer", "n2", "R", med>>,
       <<"add_provider_customer", "n1", "R", 0>>,
       <<"add_provider_customer", "R", "k", 0>> >>

SpecMed == (\E med \in RecoveryMeds : ScriptInit(MedScript(med))) /\ [][RecoveryNext]_vars

-----------------------------------------------------------------------------
(* distance on its own: the routers of one AS and their internal links *)

\* four routers of AS 7
IgpScript ==
    << <<"add_router", "g1", 7, 1>>,
       <<"add_router", "g2", 7, 2>>,
       <<"add_router", "g3", 7, 3>>,
       <<"add_router", "g4", 7, 4>> >>

\* the internal links made so far, each as 10 * (lower id) + (higher id)
IgpRanks ==
    UNION {{Data(network, r).id * 10 + Data(network, network.adj[r][i].neigh).id :
               i \in {k \in 1..Len(network.adj[r]) :
                        Data(network, r).id < Data(network, network.adj[r][k].neigh).id}} :
           r \in DOMAIN network.adj}

\* add_internal_link(r1, r2, cost) with cost 1 or 3, the pairs in ascending order
IgpLink ==
    /\ script = <<>>
    /\ measured = NoMeasure
    /\ Cardinality(IgpRanks) < MaxIgpLinks
    /\ \E r1, r2 \in DOMAIN network.nodes, cost \in {1, 3} :
          /\ Data(network, r1).id < Data(network, r2).id
          /\ \A k \in IgpRanks : k < Data(network, r1).id * 10 + Data(network, r2).id
          /\ SetBuild(add_internal_link(CurrentBuild, r1, r2, cost))
    /\ UNCHANGED <<stack, error, hashseed, announced, returned, run, firstTables, script,
                   selected, measured>>

\* distance(router, nexthop) is called; dist 0 stands for NetworkXNoPath
Measure ==
    /\ script = <<>>
    /\ measured = NoMeasure
    /\ \E router, target \in DOMAIN network.nodes :
          measured' = [router |-> router, nexthop |-> MyAddr(network, target),
                       dist |-> distance(network, asgraph, router,
                                         MyAddr(network, target))]
    /\ UNCHANGED <<network, asgraph, bgp_tables, stack, error, hashseed, announced,
                   returned, run, firstTables, script, selected>>

IgpNext ==
    \/ ScriptCall
    \/ IgpLink
    \/ Measure

SpecIgp == ScriptInit(IgpScript) /\ [][IgpNext]_vars

-----------------------------------------------------------------------------
(* decision_process on its own: candidate sets at one router *)

\* the number of candidate routes of a set
MaxCandidates == 3

\* R, a customer of n1 and n2 (AS 1) and of n3 (AS 2); m1 and m2 are the other
\* routers of R's AS, m1 next to R and m2 behind m1
DecisionScript ==
    << <<"add_router", "R", 4, 4>>,
       <<"add_router", "n1", 1, 1>>,
       <<"add_router", "n2", 1, 3>>,
       <<"add_router", "n3", 2, 2>>,
       <<"add_router", "m1", 4, 6>>,
       <<"add_router", "m2", 4, 5>>,
       <<"add_provider_customer", "n1", "R", 5>>,
       <<"add_provider_customer", "n2", "R", 0>>,
       <<"add_provider_customer", "n3", "R", 0>>,
       <<"add_internal_link", "R", "m1", 1>>,
       <<"add_internal_link", "m1", "m2", 1>> >>

DecisionNet == RunScript(DecisionScript, EmptyBuild)

DecisionPrefix == Prefix(9)

\* the routes R can hold for the prefix of AS 9: as update stores them on an
\* UPDATE from an external neighbour, and on an iBGP UPDATE from m1 or m2
EbgpCandidates ==
    {Stored(DecisionNet.network,
            BGPRoute(DecisionPrefix, MyAddr(DecisionNet.network, n),
                     <<Data(DecisionNet.network, n).AS>> \o tail, -1,
                     Edge(DecisionNet.network, "R", n).med, -1, "ebgp"),
            StampPref(Edge(DecisionNet.network, "R", n).type, NoRoute), n) :
        n \in {"n1", "n2", "n3"}, tail \in {<<9>>, <<8, 9>>}}

IbgpCandidates ==
    {Stored(DecisionNet.network,
            BGPRoute(DecisionPrefix, MyAddr(DecisionNet.network, m), path, pref, med,
                     Data(DecisionNet.network, m).id, "ibgp"),
            pref, m) :
        m \in {"m1", "m2"}, path \in {<<1, 9>>, <<2, 9>>, <<2, 8, 9>>},
        pref \in {PrefProvider, PrefPeer}, med \in {0, 5}}

Candidates == EbgpCandidates \cup IbgpCandidates

DecisionInit ==
    /\ network = DecisionNet.network
    /\ asgraph = DecisionNet.asgraph
    /\ bgp_tables = [DecisionNet.bgp_tables EXCEPT !["R"] = Put(@, DecisionPrefix, {})]
    /\ stack = <<>>
    /\ error = "none"
    /\ hashseed \in HashSeeds
    /\ announced = <<>>
    /\ returned = NoMessage
    /\ run = 1
    /\ firstTables = EmptyMap
    /\ script = <<>>
    /\ selected = NoRoute
    /\ measured = NoMeasure

\* one more route is in R's set
Candidate ==
    /\ Cardinality(bgp_tables["R"][DecisionPrefix]) < MaxCandidates
    /\ \E route \in Candidates \ bgp_tables["R"][DecisionPrefix] :
          bgp_tables' = Insert(bgp_tables, "R", DecisionPrefix, route)
    /\ selected' = NoRoute
    /\ UNCHANGED <<network, asgraph, stack, error, hashseed, announced, returned, run,
                   firstTables, script, measured>>

\* decision_process("R", prefix) is called
Decide ==
    /\ bgp_tables["R"][DecisionPrefix] # {}
    /\ selected = NoRoute
    /\ selected' = decision_process(network, asgraph, bgp_tables, hashseed, "R",
                                    DecisionPrefix).best
    /\ UNCHANGED <<network, asgraph, bgp_tables, stack, error, hashseed, announced,
                   returned, run, firstTables, script, measured>>

DecisionNext ==
    \/ Candidate
    \/ Decide

SpecDecision == DecisionInit /\ [][DecisionNext]_vars

-----------------------------------------------------------------------------
(* Properties *)

\* the routes router R holds, whatever their prefix
StoredRoutes(R) == UNION {bgp_tables[R][p] : p \in DOMAIN bgp_tables[R]}

\* the route announce_prefix installed at its router
SelfOriginated(r) == r.pref = PrefSelf /\ r.router_id = -1

OwnAS(R) == network.nodes[R].AS

\* C1 as stated: loop freedom. In every reachable state, no route stored at a
\* router R, of any prefix (the prefix R itself originated included), has the
\* AS of R in its as_path.
C1_LoopFreedomAllRoutes ==
    \A R \in DOMAIN bgp_tables :
        \A r \in StoredRoutes(R) : OwnAS(R) \notin Elems(r.as_path)

\* C1, amended: loop freedom of the learned routes. In every reachable state,
\* every route stored at a router R, other than the route R originated itself
\* (pref 1000, router_id -1, whose as_path is R's AS alone), has an as_path in
\* which the AS of R does not occur.
C1_LoopFreedomLearned ==
    \A R \in DOMAIN bgp_tables :
        \A r \in StoredRoutes(R) :
            ~SelfOriginated(r) => OwnAS(R) \notin Elems(r.as_path)

\* an UPDATE that carried the receiver's AS has just been dropped, and routers
\* hold learned routes
C1_Witness ==
    /\ returned.type = "UPDATE"
    /\ OwnAS(returned.current) \in Elems(returned.route.as_path)
    /\ \E R \in DOMAIN bgp_tables : \E r \in StoredRoutes(R) : ~SelfOriginated(r)

\* the route whose shadows a handler's frame announces: the received route in
\* update, the replacement best in withdraw
Announced(f) == IF f.kind = "update" THEN f.route ELSE f.new_best

\* L's relation to N is provider or peer
Upstream(L, N) ==
    \E k \in 1..Len(network.adj[L]) :
        network.adj[L][k].neigh = N /\ network.adj[L][k].type \in {"provider", "peer"}

\* L learned route a over a session with a provider or a peer: a is an eBGP
\* route whose next hop is such a neighbour of L
LearnedUpstream(L, a) ==
    /\ a.src = "ebgp"
    /\ \E k \in 1..Len(network.adj[L]) :
          /\ network.nodes[network.adj[L][k].neigh] =
                [AS |-> a.nexthop[3], id |-> a.nexthop[4]]
          /\ network.adj[L][k].type \in {"provider", "peer"}

\* the UPDATEs a frame's router has still to send to external neighbours
ExternalUpdates(f) ==
    {f.todo[j] : j \in {k \in 1..Len(f.todo) :
                           f.todo[k].type = "UPDATE" /\ f.todo[k].route.src = "ebgp"}}

\* C2: Gao-Rexford export. No router L sends an UPDATE to an external neighbour
\* N whose relation from L is provider or peer when L learned the announced
\* route over a provider or peer session, be the UPDATE sent by the UPDATE
\* handler or by the WITHDRAW handler (for the replacement best).
C2_GaoRexfordExport ==
    \A i \in 1..Len(stack) :
        stack[i].kind \in {"update", "withdraw"} =>
            \A m \in ExternalUpdates(stack[i]) :
                Upstream(stack[i].current, m.current) =>
                    ~LearnedUpstream(stack[i].current, Announced(stack[i]))

\* the WITHDRAW handler replaces a lost best by a route learned from a provider
\* or peer, at a router that has a provider or peer neighbour: the neighbour is
\* sent the WITHDRAW, and no UPDATE
C2_Witness ==
    /\ stack # <<>>
    /\ Top.kind = "withdraw"
    /\ LearnedUpstream(Top.current, Announced(Top))
    /\ \E j \in 1..Len(Top.todo) :
          /\ Top.todo[j].type = "WITHDRAW"
          /\ Top.todo[j].route.src = "ebgp"
          /\ Upstream(Top.current, Top.todo[j].current)

\* C3: order independence of the steady state. For a fixed topology and
\* originator, the tables reached when announce_prefix completes are the same
\* for every order in which the routers iterate over their neighbours: the run
\* on the topology built with its links in another order ends with the tables
\* of the first run.
C3_OrderIndependent ==
    (run = 2 /\ stack = <<>> /\ announced # <<>>) => firstTables = bgp_tables

\* C4: termination. Once announce_prefix is called, the propagation of UPDATE
\* and WITHDRAW messages reaches a state with no call in progress and no
\* message left to deliver.
C4_Terminates == [](announced # <<>> => <>(stack = <<>>))

\* a run has ended without error after routers came to hold several routes
C4_Witness ==
    /\ Done
    /\ error = "none"
    /\ \E R \in DOMAIN bgp_tables : Cardinality(StoredRoutes(R)) >= 2

\* C5: determinism of the steady state. Two runs of the same construction
\* sequence and the same announce_prefix call end with identical bgp_tables.
C5_Deterministic ==
    (run = 2 /\ Done) => bgp_tables = firstTables

\* C6: idempotent UPDATE. Delivering the same UPDATE (same route, receiver and
\* announcing neighbour) a second time right after the first leaves the
\* bgp_tables of every router as they were: the second delivery changes no
\* table, raises nothing and makes the receiver send no message.
C6_IdempotentUpdate ==
    [][Redeliver => /\ bgp_tables' = bgp_tables
                    /\ error' = error
                    /\ Head(stack').dup
                    /\ Head(stack').todo = <<>>]_vars

\* a second delivery of an UPDATE is in progress at a router that has a best route
C6_Witness ==
    /\ stack # <<>>
    /\ Top.dup
    /\ Top.best # NoRoute
    /\ Top.route.src = "ebgp"

\* the set decision_process is called on in the decision harness
DecisionSet == bgp_tables["R"][DecisionPrefix]

\* the orders in which a set can be iterated
Perms(S) ==
    {o \in [1..Cardinality(S) -> S] :
        \A i, j \in 1..Cardinality(S) : i # j => o[i] # o[j]}

\* what decision_process selects from S in this process
Pick(S) == DecideSeq(network, asgraph, "R", SetOrder(S, hashseed)).best

\* what decision_process selects from S when it iterates S in order o
PickIn(o) == DecideSeq(network, asgraph, "R", o).best

\* t takes r's place in the MED stage: same pref, same as_path length, same
\* leftmost AS, lower med
MedDisplaces(t, r) ==
    /\ t.pref = r.pref
    /\ Len(t.as_path) = Len(r.as_path)
    /\ t.as_path[1] = r.as_path[1]
    /\ t.med < r.med

C8_SelfOriginDominance ==
    \A i \in 1..Len(announced) :
        LET R == announced[i]
            d == decision_process(network, asgraph, bgp_tables, hashseed, R,
                                  Prefix(OwnAS(R)))
        IN /\ ~d.err
           /\ d.best.pref = PrefSelf
           /\ d.best.router_id = -1
           /\ d.best.as_path = <<OwnAS(R)>>
           /\ d.best.nexthop = MyAddr(network, R)

\* an UPDATE for its own prefix has come back to the originator, while other
\* routers hold routes to the prefix
C8_Witness ==
    /\ announced # <<>>
    /\ returned.type = "UPDATE"
    /\ returned.current = announced[1]
    /\ returned.origin # announced[1]
    /\ returned.route.prefix = Prefix(OwnAS(announced[1]))

\* C9: the eBGP scenario of test_ebgp. On the 8-router topology built in the
\* test's order, after announce_prefix(r2) the bgp_tables equal the test's
\* expected dictionary; r5 holds exactly three routes to 10.0.2.0 (as_path (2,)
\* pref 150, (4,3,1,2) pref 100, (6,7,4,3,1,2) pref 100) and its decision
\* process selects the customer route with as_path (2,).
C9_EbgpScenario ==
    Done =>
        /\ error = "none"
        /\ bgp_tables = EbgpExpectedRoutes
        /\ Cardinality(bgp_tables["r5"][Prefix(2)]) = 3
        /\ {<<r.as_path, r.pref>> : r \in bgp_tables["r5"][Prefix(2)]} =
              {<<<<2>>, PrefCustomer>>, <<<<4, 3, 1, 2>>, PrefPeer>>,
               <<<<6, 7, 4, 3, 1, 2>>, PrefPeer>>}
        /\ LET d == decision_process(network, asgraph, bgp_tables, hashseed, "r5",
                                     Prefix(2))
           IN ~d.err /\ d.best.as_path = <<2>> /\ d.best.pref = PrefCustomer

\* the test's run has ended and r5 holds three routes to the prefix
C9_Witness ==
    /\ Done
    /\ error = "none"
    /\ "r5" \in DOMAIN bgp_tables
    /\ Prefix(2) \in DOMAIN bgp_tables["r5"]
    /\ Cardinality(bgp_tables["r5"][Prefix(2)]) = 3

\* C10: the iBGP scenario of test_ibgp. On the 11-router topology built in the
\* test's order, after announce_prefix(r21) the bgp_tables equal the test's
\* expected dictionary; r1 holds for 10.0.2.0 exactly two iBGP routes (next
\* hops 10.0.1.3 and 10.0.1.4, both pref 50) and one eBGP route via r31 (pref
\* 50, med 7), and the route selected at r1 is the iBGP route with the smaller
\* IGP distance from r1.
C10_IbgpScenario ==
    Done =>
        /\ error = "none"
        /\ bgp_tables = IbgpExpectedRoutes
        /\ LET rib == bgp_tables["r1"][Prefix(2)]
               ibgp == {r \in rib : r.src = "ibgp"}
               ebgp == {r \in rib : r.src = "ebgp"}
               d == decision_process(network, asgraph, bgp_tables, hashseed, "r1",
                                     Prefix(2))
           IN /\ Cardinality(rib) = 3
              /\ Cardinality(ibgp) = 2
              /\ {<<r.nexthop, r.pref>> : r \in ibgp} =
                    {<<Addr(1, 3), PrefProvider>>, <<Addr(1, 4), PrefProvider>>}
              /\ {<<r.nexthop, r.pref, r.med>> : r \in ebgp} =
                    {<<Addr(3, 31), PrefProvider, 7>>}
              /\ ~d.err
              /\ d.best \in ibgp
              /\ \A r \in ibgp \ {d.best} :
                    distance(network, asgraph, "r1", d.best.nexthop)
                       < distance(network, asgraph, "r1", r.nexthop)

\* the test's run has ended and r1 holds iBGP routes to the prefix
C10_Witness ==
    /\ Done
    /\ error = "none"
    /\ "r1" \in DOMAIN bgp_tables
    /\ Prefix(2) \in DOMAIN bgp_tables["r1"]
    /\ \E r \in bgp_tables["r1"][Prefix(2)] : r.src = "ibgp"

\* the external neighbours of router L
ExternalNeighbours(L) ==
    {network.adj[L][k].neigh :
        k \in {j \in 1..Len(network.adj[L]) : network.adj[L][j].type # "internal"}}

\* N holds the route it stored when L announced route b to it over eBGP:
\* L's AS prepended to b's as_path, next hop L
HoldsShadowOf(N, L, b) ==
    \E r \in Routes(bgp_tables, N, b.prefix) :
        /\ r.src = "ebgp"
        /\ r.nexthop = MyAddr(network, L)
        /\ r.as_path = <<OwnAS(L)>> \o b.as_path

\* the withdraw call on top of the stack removed its router's best route,
\* found a replacement and has made all its calls
WithdrawRecovered ==
    /\ stack # <<>>
    /\ Top.kind = "withdraw"
    /\ Top.new_best # NoRoute
    /\ Top.todo = <<>>

\* C11: withdrawal and recovery. When a WITHDRAW removes a router L's current
\* best route and a replacement best exists, then at the handler's return L's
\* set no longer holds the removed route, and no external neighbour of L still
\* holds the route it learned from L's announcement of the removed best.
C11_WithdrawalRecovery ==
    WithdrawRecovered =>
        /\ Top.best \notin Routes(bgp_tables, Top.current, Top.best.prefix)
        /\ \A N \in ExternalNeighbours(Top.current) :
              ~HoldsShadowOf(N, Top.current, Top.best)

\* C12: failures are confined to topology construction. On a topology built
\* without error, announce_prefix and every UPDATE and WITHDRAW reception it
\* triggers complete without raising: no run ends with an exception.
C12_NoErrorAfterConstruction == error = "none"

\* C13: origination installs the self route. After announce_prefix(R) has
\* returned, R's set for the prefix 10.0.<AS>.0 is exactly the one-element set
\* {(prefix, nexthop 10.0.<AS>.<id>, as_path (AS,), pref 1000, med 0,
\* router_id -1, src ebgp)}, whatever MED the edges of R carry.
C13_SelfRouteInstalled ==
    (Done /\ error = "none") =>
        \A i \in 1..Len(announced) :
            Routes(bgp_tables, announced[i], Prefix(OwnAS(announced[i]))) =
                {BGPRoute(Prefix(OwnAS(announced[i])), MyAddr(network, announced[i]),
                          <<OwnAS(announced[i])>>, PrefSelf, 0, -1, "ebgp")}

\* the update call on top of the stack replaced a previous best route by a
\* route of another as_path and has made all its calls
UpdateReplaced ==
    /\ stack # <<>>
    /\ Top.kind = "update"
    /\ Top.previous_best # NoRoute
    /\ Top.previous_best # Top.best
    /\ Top.previous_best.as_path # Top.route.as_path
    /\ Top.todo = <<>>

\* C14: the replaced best is withdrawn at eBGP neighbours. When an UPDATE
\* received by router L changes L's best route and a previous best existed,
\* then once L's fan-out has completed no external neighbour of L still holds
\* the route it had stored from L's announcement of the previous best.
C14_ReplacedBestWithdrawn ==
    UpdateReplaced =>
        \A N \in ExternalNeighbours(Top.current) :
            ~HoldsShadowOf(N, Top.current, Top.previous_best)

\* C15: iBGP fan-out excludes the sender. In the UPDATE handler and in the
\* WITHDRAW handler a router delivers iBGP messages only to the other routers
\* of its AS, never to itself; and no router's set ever holds an iBGP route
\* whose next hop is that router's own address.
C15_IbgpExcludesSender ==
    /\ \A i \in 1..Len(stack) :
          \A j \in 1..Len(stack[i].todo) :
              stack[i].todo[j].route.src = "ibgp" =>
                  stack[i].todo[j].current # stack[i].todo[j].origin
    /\ \A R \in DOMAIN bgp_tables :
          \A r \in StoredRoutes(R) :
              r.src = "ibgp" => r.nexthop # MyAddr(network, R)

\* C16: origination targets external neighbours only. announce_prefix(R)
\* delivers the initial UPDATE to every external neighbour of R (which, when
\* of another AS, then holds the route with next hop R and as_path (AS of R,))
\* and attempts no delivery to a router joined to R by an internal link, also
\* when R has internal links.
C16_OriginationExternalOnly ==
    /\ \A i \in 1..Len(stack) :
          stack[i].kind = "announce_prefix" =>
              \A j \in 1..Len(stack[i].todo) :
                  /\ stack[i].todo[j].type = "UPDATE"
                  /\ stack[i].todo[j].current \in ExternalNeighbours(stack[i].current)
    /\ Done =>
          \A i \in 1..Len(announced) :
              \A N \in ExternalNeighbours(announced[i]) :
                  OwnAS(N) # OwnAS(announced[i]) =>
                      \E r \in Routes(bgp_tables, N, Prefix(OwnAS(announced[i]))) :
                          /\ r.nexthop = MyAddr(network, announced[i])
                          /\ r.as_path = <<OwnAS(announced[i])>>

\* C17: local-preference stamping. In every reachable state, each eBGP,
\* non-self-originated route stored at router R whose next hop is the address
\* of external neighbour N has pref 50 if the relation from R to N is provider,
\* 100 if peer and 150 if customer, and router_id equal to N's id; and each
\* iBGP route an UPDATE stores at R keeps the pref carried by the message.
C17_PrefStamping ==
    /\ [](\A R \in DOMAIN bgp_tables :
            \A r \in StoredRoutes(R) :
                (r.src = "ebgp" /\ ~SelfOriginated(r)) =>
                    \A k \in 1..Len(network.adj[R]) :
                        (/\ network.adj[R][k].type # "internal"
                         /\ MyAddr(network, network.adj[R][k].neigh) = r.nexthop)
                        => /\ network.adj[R][k].type = "provider" => r.pref = PrefProvider
                           /\ network.adj[R][k].type = "peer" => r.pref = PrefPeer
                           /\ network.adj[R][k].type = "customer" => r.pref = PrefCustomer
                           /\ r.router_id = Data(network, network.adj[R][k].neigh).id)
    /\ [][(Update /\ Next1.route.src = "ibgp" /\ error' = "none") =>
             [Next1.route EXCEPT !.router_id = Data(network, Next1.origin).id]
                \in Routes(bgp_tables', Next1.current, Next1.route.prefix)]_vars

\* a router holds a route learned from a provider and a route learned over iBGP
C17_Witness ==
    \E R \in DOMAIN bgp_tables :
        /\ \E r \in StoredRoutes(R) :
              /\ r.src = "ebgp" /\ r.pref = PrefProvider
              /\ \E k \in 1..Len(network.adj[R]) :
                    /\ network.adj[R][k].type = "provider"
                    /\ MyAddr(network, network.adj[R][k].neigh) = r.nexthop
        /\ \E r \in StoredRoutes(R) : r.src = "ibgp" /\ r.pref = PrefCustomer

\* C18: decision stages 1 and 2. For every non-empty candidate set the route
\* returned by decision_process is a member of the set, has the highest pref
\* of the set and has the shortest as_path among the candidates with that
\* pref; for an empty set the result is none.
C18_DecisionStages12 ==
    \E d \in {decision_process(network, asgraph, bgp_tables, hashseed, "R",
                               DecisionPrefix)} :
        /\ ~d.err
        /\ DecisionSet = {} => d.best = NoRoute
        /\ DecisionSet # {} =>
              /\ d.best \in DecisionSet
              /\ \A r \in DecisionSet :
                    /\ r.pref <= d.best.pref
                    /\ r.pref = d.best.pref => Len(d.best.as_path) <= Len(r.as_path)
        /\ selected # NoRoute => selected = d.best

\* decision_process has selected among three routes, one of a lower pref and
\* one of the selected route's pref and a longer as_path
C18_Witness ==
    /\ selected \in DecisionSet
    /\ Cardinality(DecisionSet) = 3
    /\ \E r \in DecisionSet : r.pref < selected.pref
    /\ \E r \in DecisionSet :
          r.pref = selected.pref /\ Len(r.as_path) > Len(selected.as_path)

\* the candidates of S that tie with route b on pref and as_path length
Tied(S, b) == {r \in S : r.pref = b.pref /\ Len(r.as_path) = Len(b.as_path)}

\* the routes of T with the minimum med among the routes of T that share
\* their leftmost AS
PartitionWinners(T) ==
    {r \in T : \A q \in T : q.as_path[1] = r.as_path[1] => r.med <= q.med}

\* C19: decision stage 3, MED partitioning. Among the candidates that tie on
\* pref and as_path length, MED is compared only between routes of the same
\* leftmost AS: the selected route has the minimum med among the tied
\* candidates sharing its as_path[0], and no candidate is eliminated because
\* a route of another leftmost AS has a lower med: the selected route is the
\* choice of the later stages among exactly the partition winners.
C19_MedPartitioning ==
    DecisionSet # {} =>
        \E d \in {decision_process(network, asgraph, bgp_tables, hashseed, "R",
                                   DecisionPrefix)} :
            /\ ~d.err
            /\ \A q \in Tied(DecisionSet, d.best) :
                  q.as_path[1] = d.best.as_path[1] => d.best.med <= q.med
            /\ \E o \in Perms(PartitionWinners(Tied(DecisionSet, d.best))) :
                  LastPass(network, asgraph, "R", o,
                           [err |-> FALSE, best |-> NoRoute]).best = d.best

\* decision_process has selected a route although a tied candidate of another
\* leftmost AS has a lower med, and that candidate has eliminated a third one
\* of its own leftmost AS
C19_Witness ==
    /\ selected \in DecisionSet
    /\ \E q, y \in Tied(DecisionSet, selected) :
          /\ q.as_path[1] # selected.as_path[1]
          /\ q.med < selected.med
          /\ y.as_path[1] = q.as_path[1]
          /\ q.med < y.med

\* C20: decision stages 4 to 6. Among the candidates surviving stages 1 to 3
\* the selected route is a minimum of the order 'eBGP before iBGP, then (only
\* when all survivors are iBGP) smaller IGP distance to the next hop, then
\* lower router_id': an iBGP route is never selected while an eBGP survivor
\* exists, and between eBGP routes the router_id alone decides (no IGP
\* distance is computed, so none can raise).
C20_DecisionStages456 ==
    DecisionSet # {} =>
        \E d \in {decision_process(network, asgraph, bgp_tables, hashseed, "R",
                                   DecisionPrefix)} :
            \E W \in {PartitionWinners(Tied(DecisionSet, d.best))} :
                /\ ~d.err
                /\ d.best \in W
                /\ (\E e \in W : e.src = "ebgp") =>
                      /\ d.best.src = "ebgp"
                      /\ \A e \in W : e.src = "ebgp" => d.best.router_id <= e.router_id
                /\ (\A r \in W : r.src = "ibgp") =>
                      \A r \in W :
                          \/ distance(network, asgraph, "R", d.best.nexthop)
                                < distance(network, asgraph, "R", r.nexthop)
                          \/ /\ distance(network, asgraph, "R", d.best.nexthop)
                                   = distance(network, asgraph, "R", r.nexthop)
                             /\ d.best.router_id <= r.router_id

\* decision_process has selected the nearer of two surviving iBGP routes, which
\* has the higher router_id
C20_Witness ==
    /\ selected \in DecisionSet
    /\ selected.src = "ibgp"
    /\ \E r \in PartitionWinners(Tied(DecisionSet, selected)) :
          /\ r.src = "ibgp"
          /\ r.router_id < selected.router_id
          /\ distance(network, asgraph, "R", selected.nexthop)
                < distance(network, asgraph, "R", r.nexthop)

\* the paths of AS graph g from s to t that visit no vertex twice
SimplePaths(g, s, t) ==
    {p \in UNION {[1..n -> {g.nodes[i].addr : i \in 1..Len(g.nodes)}] :
                     n \in 1..Len(g.nodes)} :
        /\ p[1] = s
        /\ p[Len(p)] = t
        /\ \A i, j \in 1..Len(p) : i # j => p[i] # p[j]
        /\ \A i \in 1..(Len(p) - 1) : <<p[i], p[i + 1]>> \in DOMAIN g.weight}

\* the summed cost of the edges of path p
RECURSIVE PathCost(_, _)
PathCost(g, p) ==
    IF Len(p) <= 1 THEN 0
    ELSE g.weight[<<p[1], p[2]>>] + PathCost(g, Tail(p))

\* C21: IGP distance. distance(R, nexthop) is the number of vertices of a path
\* of minimum total cost from R to the router owning nexthop in the graph of
\* R's AS; it is 1 when nexthop is R's own address; it is not the summed cost
\* (a path of n vertices costs at least n - 1 and distance does not follow the
\* cost). Without any path the call raises.
C21_IgpDistance ==
    measured # NoMeasure =>
        \E g \in {asgraph[OwnAS(measured.router)]} :
            \E paths \in {SimplePaths(g, MyAddr(network, measured.router),
                                      measured.nexthop)} :
                /\ paths = {} <=> measured.dist = 0
                /\ paths # {} =>
                      \E p \in paths :
                          /\ Len(p) = measured.dist
                          /\ \A q \in paths : PathCost(g, p) <= PathCost(g, q)
                /\ measured.nexthop = MyAddr(network, measured.router) =>
                      measured.dist = 1

\* distance has returned 3 for a next hop that is one link of cost 3 away and
\* two links of cost 1 away: the cheapest path has 3 vertices and costs 2
C21_Witness ==
    /\ measured # NoMeasure
    /\ measured.dist = 3
    /\ \E g \in {asgraph[OwnAS(measured.router)]} :
          /\ <<MyAddr(network, measured.router), measured.nexthop>> \in DOMAIN g.weight
          /\ \E p \in SimplePaths(g, MyAddr(network, measured.router), measured.nexthop) :
                Len(p) = 3 /\ PathCost(g, p) = 2

\* C22: the decision process is a function of the candidate set. For every
\* set of candidate routes of one prefix at one router, decision_process
\* selects the same route in whatever order it iterates the set.
C22_OrderIndependentDecision ==
    \A router \in DOMAIN bgp_tables :
        \A prefix \in DOMAIN bgp_tables[router] :
            \A o1, o2 \in Perms(bgp_tables[router][prefix]) :
                DecideSeq(network, asgraph, router, o1).best
                    = DecideSeq(network, asgraph, router, o2).best

\* C23: what is announced is the new best. Whenever the UPDATE handler fans
\* out (the best route changed after inserting the received route), the
\* router's new best route is the route just inserted, so the shadows it
\* announces are shadows of its current best route.
C23_AnnouncedIsNewBest ==
    \A i \in 1..Len(stack) :
        (stack[i].kind = "update" /\ BestChanged(stack[i].previous_best, stack[i].best))
        => stack[i].best = Stored(network, stack[i].route,
                                  StampPref(stack[i].type_rel, stack[i].route),
                                  stack[i].origin)

\* a WITHDRAW has just been handled without raising: its frame is on the stack
WithdrawHandled ==
    /\ Calling
    /\ Next1.type = "WITHDRAW"
    /\ Len(stack') = Len(stack) + 1

\* the route of the WITHDRAW about to be handled, after line 166
Restamped ==
    [Next1.route EXCEPT
       !.pref = StampPref(TypeRel(network, Next1.route, Next1.current, Next1.origin),
                          Next1.route)]

\* C24: a WITHDRAW that does not remove the receiver's current best route
\* sends no message. If no route equal to the received one on all seven fields
\* (after the pref is stamped again) is stored, the bgp_tables of all routers
\* are unchanged; if the matching route is stored and is not the best, only
\* that route leaves the receiver's set and every other set is unchanged.
C24_WithdrawOfNonBest ==
    [][WithdrawHandled =>
         /\ Restamped \notin Routes(bgp_tables, Next1.current, Restamped.prefix)
              => /\ Head(stack').todo = <<>>
                 /\ bgp_tables' = bgp_tables
         /\ (/\ Restamped \in Routes(bgp_tables, Next1.current, Restamped.prefix)
             /\ decision_process(network, asgraph, bgp_tables, hashseed, Next1.current,
                                 Restamped.prefix).best # Restamped)
              => /\ Head(stack').todo = <<>>
                 /\ bgp_tables'
                      = [bgp_tables EXCEPT ![Next1.current][Restamped.prefix]
                                             = @ \ {Restamped}]]_vars

\* a WITHDRAW has removed a stored route that was not the receiver's best
C24_Witness ==
    /\ stack # <<>>
    /\ Top.kind = "withdraw"
    /\ Top.removed
    /\ Top.best # Top.route

\* C25: a WITHDRAW that leaves no route. When a WITHDRAW removes the only
\* route its receiver holds for the prefix (the new best is None), the
\* receiver sends neither WITHDRAW nor UPDATE to any neighbour, and every
\* other router's set is unchanged.
C25_WithdrawOfLastRoute ==
    [][(/\ WithdrawHandled
        /\ Routes(bgp_tables, Next1.current, Restamped.prefix) = {Restamped})
       => /\ Head(stack').todo = <<>>
          /\ bgp_tables' = [bgp_tables EXCEPT ![Next1.current][Restamped.prefix] = {}]]_vars

\* a WITHDRAW has removed the only route of its receiver
C25_Witness ==
    /\ stack # <<>>
    /\ Top.kind = "withdraw"
    /\ Top.removed
    /\ Top.best = Top.route
    /\ Top.new_best = NoRoute
    /\ Top.todo = <<>>
    /\ Routes(bgp_tables, Top.current, Top.route.prefix) = {}

\* the iBGP UPDATEs that the calls in progress have still to send
PendingIbgpUpdates ==
    UNION {{stack[i].todo[j] :
              j \in {k \in 1..Len(stack[i].todo) :
                       /\ stack[i].todo[k].type = "UPDATE"
                       /\ stack[i].todo[k].route.src = "ibgp"}} :
           i \in 1..Len(stack)}

\* C26: no iBGP reflection. A router never sends over iBGP an UPDATE for a
\* route it learned over iBGP: every iBGP UPDATE a router B sends is the iBGP
\* shadow (same prefix and as_path, nexthop B's address, router_id B's id,
\* pref and med copied) of an eBGP-sourced route stored in B's set.
C26_NoIbgpReflection ==
    \A msg \in PendingIbgpUpdates :
        \E r \in Routes(bgp_tables, msg.origin, msg.route.prefix) :
            /\ r.src = "ebgp"
            /\ msg.route.as_path = r.as_path
            /\ msg.route.nexthop = MyAddr(network, msg.origin)
            /\ msg.route.router_id = Data(network, msg.origin).id
            /\ msg.route.pref = r.pref
            /\ msg.route.med = r.med

\* an UPDATE handler and a WITHDRAW handler each have an iBGP UPDATE to send
C26_Witness ==
    /\ \E msg \in PendingIbgpUpdates :
          \E i \in 1..Len(stack) : stack[i].kind = "update" /\ stack[i].current = msg.origin
    /\ \E msg \in PendingIbgpUpdates :
          \E i \in 1..Len(stack) : stack[i].kind = "withdraw" /\ stack[i].current = msg.origin

\* the routes of the messages in flight: those the calls in progress have
\* received and those they have still to send
InFlight ==
    UNION {{stack[i].route} \cup
           {stack[i].todo[j].route :
              j \in {k \in 1..Len(stack[i].todo) :
                       stack[i].todo[k].type \in {"UPDATE", "WITHDRAW"}}} :
           i \in 1..Len(stack)}

\* no AS is twice in the path
Simple(as_path) ==
    \A i, j \in 1..Len(as_path) : i # j => as_path[i] # as_path[j]

\* C27: AS paths are simple. No stored route and no message in flight has an
\* as_path with the same AS twice, and the rightmost AS of every stored route
\* is the AS whose prefix the route is for.
C27_SimplePaths ==
    /\ \A route \in InFlight : Simple(route.as_path)
    /\ \A R \in DOMAIN bgp_tables :
          \A r \in StoredRoutes(R) :
              /\ Simple(r.as_path)
              /\ r.prefix = Prefix(r.as_path[Len(r.as_path)])

\* an UPDATE whose path holds three ASes is about to be dropped by the loop
\* check of a router that has stored a route of two ASes
C27_Witness ==
    /\ Calling
    /\ Next1.type = "UPDATE"
    /\ Len(Next1.route.as_path) = 3
    /\ LoopDetected(network, Next1.current, Next1.route)
    /\ \E r \in StoredRoutes(Next1.current) : Len(r.as_path) = 2

====
